---------------------------- MODULE Spec2Model ----------------------------
(***************************************************************************)
(* A model of decomprofile.data_process.DataProcess: one analysis session  *)
(* and its three state-changing methods generate_target_materials,         *)
(* find_PSF and checkout.  Python attributes that may be missing are       *)
(* modelled by the set attrs of attribute names the object holds           *)
(* (hasattr(self, n) is n \in attrs); optional arguments are None (the     *)
(* empty sequence) or Some(v).  Positions are <<x, y>> pixel pairs, a      *)
(* stamp is the rectangle of the field-of-view image it was cut from       *)
(* together with the divisor its pixel values were divided by.             *)
(***************************************************************************)
EXTENDS Integers, Sequences, FiniteSets, TLC

-----------------------------------------------------------------------------
(* Bounds of the model. *)

\* side of the (square) field-of-view image, pixels 0 .. ImageSide-1
ImageSide == 9
\* longest caller-supplied radius_list
MaxRadiusList == 2
\* most apertures detect_obj returns
MaxApertures == 1
\* most local maxima search_local_max returns
MaxCand == 2
\* longest caller-supplied PSF_pos_list
MaxPosList == 1

-----------------------------------------------------------------------------
(* Python values. *)

None == << >>
Some(v) == << v >>
IsNone(o) == o = << >>
Val(o) == o[1]

Max(a, b) == IF a >= b THEN a ELSE b
Min(a, b) == IF a <= b THEN a ELSE b

\* int(a/2) of Python 3: true division, then truncation towards zero
IntHalf(a) == IF a >= 0 THEN a \div 2 ELSE -((-a) \div 2)

-----------------------------------------------------------------------------
(* The field-of-view image: a target at the centre, a bright star at the   *)
(* left edge, a faint star at the top edge, blank sky elsewhere.           *)

Coords == 0 .. (ImageSide - 1)

Image ==
    [ x \in Coords, y \in Coords |->
        CASE x = 4 /\ y = 4 -> 8
          [] (x \in {3, 5} /\ y = 4) \/ (x = 4 /\ y \in {3, 5}) -> 2
          [] x = 0 /\ y = 4 -> 9
          [] (x = 1 /\ y = 4) \/ (x = 0 /\ y \in {3, 5}) -> 1
          [] x = 4 /\ y = 0 -> 3
          [] OTHER -> 0 ]

Pix(x, y) == Image[x, y]

\* a stamp: rows y0 .. y0+h-1 and columns x0 .. x0+w-1 of the image, every
\* pixel divided by div (div = 0 stands for the NaN a division by zero leaves)
Stamp(x0, y0, w, h) == [x0 |-> x0, y0 |-> y0, w |-> w, h |-> h, div |-> 1]
NoStamp == Stamp(0, 0, 0, 0)

RECURSIVE RowSum(_, _, _)
RowSum(y, x0, w) == IF w <= 0 THEN 0 ELSE Pix(x0, y) + RowSum(y, x0 + 1, w - 1)

RECURSIVE AreaSum(_, _, _, _)
AreaSum(x0, y0, w, h) ==
    IF h <= 0 THEN 0 ELSE RowSum(y0, x0, w) + AreaSum(x0, y0 + 1, w, h - 1)

\* Corner[y + 1][x + 1]: the sum of the pixels left of column x and above row
\* y, tabulated once
Corner ==
    [ j \in 1 .. (ImageSide + 1) |->
        [ i \in 1 .. (ImageSide + 1) |-> AreaSum(0, 0, i - 1, j - 1) ] \o << >> ]
    \o << >>

\* the sum of the pixels of columns x0 .. x0+w-1, rows y0 .. y0+h-1
RectSum(x0, y0, w, h) ==
    Corner[y0 + h + 1][x0 + w + 1] - Corner[y0 + 1][x0 + w + 1]
    - Corner[y0 + h + 1][x0 + 1] + Corner[y0 + 1][x0 + 1]

\* the sum of the stamp's raw pixels (before the division by div)
RawSum(s) == RectSum(s.x0, s.y0, s.w, s.h)

\* np.sum(stamp) = 1, in exact arithmetic
SumIsOne(s) == s.div # 0 /\ RawSum(s) = s.div

\* stamp.shape[0] # stamp.shape[1]
IsSquare(s) == s.h = s.w

\* cutout(image, center, radius): the square of side 2*radius+1 around
\* center, clipped at the borders of the image
cutout(center, radius) ==
    LET xa == Max(0, center[1] - radius)
        xb == Min(ImageSide - 1, center[1] + radius)
        ya == Max(0, center[2] - radius)
        yb == Min(ImageSide - 1, center[2] + radius)
    IN  Stamp(xa, ya, xb - xa + 1, yb - ya + 1)


\* cut_center_auto's re-centring: the brightest pixel within one pixel of
\* center (center itself when it is one of the brightest)
Brightest(center) ==
    LET near == (Max(0, center[1] - 1) .. Min(ImageSide - 1, center[1] + 1))
                \X (Max(0, center[2] - 1) .. Min(ImageSide - 1, center[2] + 1))
        top == { p \in near : \A q \in near : Pix(q[1], q[2]) <= Pix(p[1], p[2]) }
    IN  IF center \in top THEN center ELSE CHOOSE p \in top : TRUE

\* Brightest, tabulated once
Recentred ==
    [ j \in 1 .. ImageSide |->
        [ i \in 1 .. ImageSide |-> Brightest(<< i - 1, j - 1 >>) ] \o << >> ]
    \o << >>

Refine(center) == Recentred[center[2] + 1][center[1] + 1]

\* cut_center_auto(image, center, kernel, radius): the cutout around the
\* re-centred position
cut_center_auto(center, radius) == cutout(Refine(center), radius)

-----------------------------------------------------------------------------
(* generate_target_materials: the radius selection loop. *)

DefaultRadiusList == << 30, 35, 40, 45, 50, 60, 70 >>

\* percent < 0.03, as a comparison of integers
OutlierPercent == 3
\* up_limit = gauss_mean + 2 * gauss_1sig
SigmaFactor == 2

\* number of entries of row y, columns x0 .. x0+w-1, above limit
RECURSIVE RowAbove(_, _, _, _)
RowAbove(y, x0, w, limit) ==
    IF w <= 0 THEN 0
    ELSE (IF Pix(x0, y) > limit THEN 1 ELSE 0) + RowAbove(y, x0 + 1, w - 1, limit)

\* number of entries of column x, rows y0 .. y0+h-1, above limit
RECURSIVE ColAbove(_, _, _, _)
ColAbove(x, y0, h, limit) ==
    IF h <= 0 THEN 0
    ELSE (IF Pix(x, y0) > limit THEN 1 ELSE 0) + ColAbove(x, y0 + 1, h - 1, limit)

\* len(edge_data): first row, last row, first column, last column
EdgeLen(s) == 2 * s.w + 2 * s.h

\* np.sum(edge_data > up_limit)
EdgeAbove(s, limit) ==
      RowAbove(s.y0, s.x0, s.w, limit)
    + RowAbove(s.y0 + s.h - 1, s.x0, s.w, limit)
    + ColAbove(s.x0, s.y0, s.h, limit)
    + ColAbove(s.x0 + s.w - 1, s.y0, s.h, limit)

\* the results fit_data_oneD_gaussian may give: (gauss_mean, gauss_1sig)
FitResults ==
    { [mean |-> -1, sig |-> 0], [mean |-> 1, sig |-> 1], [mean |-> 1, sig |-> 4] }

up_limit(g) == g.mean + SigmaFactor * g.sig

\* percent < 0.03 for the cutout s whose edge the fit g describes
PercentBelow(s, g) == EdgeAbove(s, up_limit(g)) * 100 < OutlierPercent * EdgeLen(s)

\* a loop without its break: rad ends as the last entry
RadiusLoopNoBreak(list, i, pos, fit) == list[Len(list)]

\* the for loop over radius_list from entry i on: the value rad holds when the
\* loop ends.  fit maps each cutout to the result of its Gaussian fit.
RECURSIVE RadiusLoop(_, _, _, _)
RadiusLoop(list, i, pos, fit) ==
    LET s == cutout(pos, list[i])
    IN  IF PercentBelow(s, fit[s]) \/ i = Len(list) THEN list[i]
        ELSE RadiusLoop(list, i + 1, pos, fit)

\* the cutouts the loop may fit
LoopStamps(list, pos) == { cutout(pos, list[i]) : i \in 1 .. Len(list) }

-----------------------------------------------------------------------------
(* Text typed at the prompt of input(). *)

Digits == { "0", "1", "2", "3", "4", "5", "6", "7", "8", "9" }
DigitVal ==
    ("0" :> 0) @@ ("1" :> 1) @@ ("2" :> 2) @@ ("3" :> 3) @@ ("4" :> 4) @@
    ("5" :> 5) @@ ("6" :> 6) @@ ("7" :> 7) @@ ("8" :> 8) @@ ("9" :> 9)

\* [int(s[i]) for i in range(len(s)) if s[i].isnumeric()]: one index per digit
RECURSIVE DigitIndexes(_)
DigitIndexes(text) ==
    IF text = << >> THEN << >>
    ELSE (IF Head(text) \in Digits THEN << DigitVal[Head(text)] >> ELSE << >>)
         \o DigitIndexes(Tail(text))

SeqToSet(q) == { q[i] : i \in 1 .. Len(q) }

-----------------------------------------------------------------------------
(* The session. *)

VARIABLES
    header,              \* "none", or what the header holds: "noexp", "exp"
    exptime,             \* "none", "scalar" or "map" (a 2D exposure map)
    fov_noise_map,       \* TRUE when a FOV-wide noise map was supplied
    attrs,               \* the optional attributes the object holds
    target_pos,
    target_stamp,
    noise_map,
    target_mask,
    apertures,
    bkg_std,
    PSF_pos_list,
    PSF_list,
    psf_id_for_fitting,
    call                 \* the last call: its arguments, what the external
                         \* helpers and the prompt returned, and how it ended

vars == << header, exptime, fov_noise_map, attrs, target_pos, target_stamp,
           noise_map, target_mask, apertures, bkg_std, PSF_pos_list, PSF_list,
           psf_id_for_fitting, call >>

\* the fields the methods write, as one record
Self ==
    [ attrs |-> attrs, target_pos |-> target_pos, target_stamp |-> target_stamp,
      noise_map |-> noise_map, target_mask |-> target_mask,
      apertures |-> apertures, bkg_std |-> bkg_std,
      PSF_pos_list |-> PSF_pos_list, PSF_list |-> PSF_list ]

Store(s) ==
    /\ attrs' = s.attrs
    /\ target_pos' = s.target_pos
    /\ target_stamp' = s.target_stamp
    /\ noise_map' = s.noise_map
    /\ target_mask' = s.target_mask
    /\ apertures' = s.apertures
    /\ bkg_std' = s.bkg_std
    /\ PSF_pos_list' = s.PSF_pos_list
    /\ PSF_list' = s.PSF_list
    /\ UNCHANGED << header, exptime, fov_noise_map, psf_id_for_fitting >>

\* self.<name> = value
SetAttr(s, name) == [s EXCEPT !.attrs = @ \cup {name}]

Returned == "returned"

NoNoise == [stamp |-> NoStamp, kind |-> "none", exp |-> "none", bkg |-> 0]
NoMask == [stamp |-> NoStamp, masked |-> {}]

Headers == { "none", "noexp", "exp" }
Exptimes == { "none", "scalar", "map" }
TargetPositions == { << 4, 4 >>, << 3, 4 >> }

\* a constructor that stores a pixel scale with or without a header
InitAttrsAlways(h) == {"psf_id_for_fitting", "deltaPix"}

\* __init__: deltaPix is read when a header is given; psf_id_for_fitting = 0
InitAttrs(h) ==
    {"psf_id_for_fitting"} \cup (IF h # "none" THEN {"deltaPix"} ELSE {})

Init ==
    /\ header \in Headers
    /\ exptime \in Exptimes
    /\ fov_noise_map \in BOOLEAN
    /\ target_pos \in TargetPositions
    /\ attrs = InitAttrs(header)
    /\ psf_id_for_fitting = 0
    /\ target_stamp = NoStamp
    /\ noise_map = NoNoise
    /\ target_mask = NoMask
    /\ apertures = << >>
    /\ bkg_std = 0
    /\ PSF_pos_list = << >>
    /\ PSF_list = << >>
    /\ call = [op |-> "__init__", outcome |-> Returned]

-----------------------------------------------------------------------------
(* generate_target_materials *)

ErrRad == "UnboundLocalError: local variable 'rad' referenced before assignment"
ErrExptimeStamp ==
    "UnboundLocalError: local variable 'exptime_stamp' referenced before assignment"
ErrNoKeys == "AttributeError: 'NoneType' object has no attribute 'keys'"
ErrNoExptime ==
    "ValueError: No Exposure time information in the header, should input a value."
ErrNoBkgStd == "AttributeError: 'DataProcess' object has no attribute 'bkg_std'"
ErrIndex == "IndexError: list index out of range"

\* lines 107-119: the radius the cutout uses, None when the loop never ran
ChosenRadius(radius, radius_list, pos, fit) ==
    IF ~IsNone(radius) THEN radius
    ELSE LET list == IF IsNone(radius_list) THEN DefaultRadiusList
                     ELSE Val(radius_list)
         IN  IF list = << >> THEN None
             ELSE Some(RadiusLoop(list, 1, pos, fit))

\* lines 130-146: the noise map.  Gives the session and how the stage ended.
NoiseStage(s, stamp, bkg_arg, measured) ==
    IF fov_noise_map
    THEN [s |-> SetAttr([s EXCEPT !.noise_map =
                            [stamp |-> stamp, kind |-> "cut",
                             exp |-> "none", bkg |-> 0]], "noise_map"),
          outcome |-> Returned]
    ELSE LET s1 == IF IsNone(bkg_arg)
                   THEN SetAttr([s EXCEPT !.bkg_std = measured], "bkg_std")
                   ELSE s
         IN  IF exptime = "none" /\ header = "none"
               THEN [s |-> s1, outcome |-> ErrNoKeys]
             ELSE IF exptime = "none" /\ header = "noexp"
               THEN [s |-> s1, outcome |-> ErrNoExptime]
             ELSE IF exptime # "map"
               THEN [s |-> s1, outcome |-> ErrExptimeStamp]
             ELSE IF "bkg_std" \notin s1.attrs
               THEN [s |-> s1, outcome |-> ErrNoBkgStd]
             ELSE [s |-> SetAttr([s1 EXCEPT !.noise_map =
                                    [stamp |-> stamp, kind |-> "computed",
                                     exp |-> exptime, bkg |-> s1.bkg_std]],
                                 "noise_map"),
                   outcome |-> Returned]

\* lines 148-164: the mask, then the three assignments
MaskStage(s, stamp, create_mask, detected, text) ==
    LET select_idx == IF create_mask THEN DigitIndexes(text) ELSE << >>
        chosen == SeqToSet(select_idx)
    IN  IF \E i \in chosen : i >= detected
        THEN [s |-> s, outcome |-> ErrIndex]
        ELSE [s |-> [s EXCEPT
                       !.apertures = SelectSeq([i \in 1 .. detected |-> i - 1],
                                               LAMBDA a : a \notin chosen),
                       !.target_stamp = stamp,
                       !.target_mask = [stamp |-> stamp, masked |-> chosen],
                       !.attrs = @ \cup {"apertures", "target_stamp", "target_mask"}],
              outcome |-> Returned]

\* the whole method
GtmResult(s, cut_kernel, radius, radius_list, bkg_arg, create_mask, fit, measured, detected, text) ==
    LET r == ChosenRadius(radius, radius_list, s.target_pos, fit)
    IN  IF IsNone(r) THEN [s |-> s, outcome |-> ErrRad, used |-> None]
        ELSE
        LET pos == IF IsNone(cut_kernel) THEN s.target_pos
                   ELSE Refine(s.target_pos)
            stamp == cutout(pos, Val(r))
            s1 == [s EXCEPT !.target_pos = pos]
            n == NoiseStage(s1, stamp, bkg_arg, measured)
        IN  IF n.outcome # Returned
            THEN [s |-> n.s, outcome |-> n.outcome, used |-> r]
            ELSE LET m == MaskStage(n.s, stamp, create_mask, detected, text)
                 IN  [s |-> m.s, outcome |-> m.outcome, used |-> r]

RECURSIVE SeqsUpTo(_, _)
SeqsUpTo(S, n) ==
    IF n = 0 THEN { << >> }
    ELSE LET shorter == SeqsUpTo(S, n - 1)
         IN  shorter \cup { Append(q, x) : q \in shorter, x \in S }

Opt(S) == { None } \cup { Some(v) : v \in S }

\* One call.  args gives, per argument, the values callers pass; ext gives what
\* esti_bgkstd, detect_obj, input() and fit_data_oneD_gaussian may return.
generate_target_materials(args, ext) ==
    \E cut_kernel \in args.cut_kernel,
       radius \in args.radius,
       radius_list \in args.radius_list,
       bkg_arg \in args.bkg_std,
       create_mask \in args.create_mask,
       detected \in ext.detected :
    \E measured \in (IF IsNone(bkg_arg) /\ ~fov_noise_map THEN ext.measured ELSE {0}),
       text \in (IF create_mask THEN ext.text ELSE { << >> }),
       fit \in [ (IF IsNone(radius)
                  THEN LoopStamps(IF IsNone(radius_list) THEN DefaultRadiusList
                                  ELSE Val(radius_list), target_pos)
                  ELSE {}) -> ext.fit ] :
        \E res \in { GtmResult(Self, cut_kernel, radius, radius_list, bkg_arg,
                               create_mask, fit, measured, detected, text) } :
            /\ Store(res.s)
            /\ call' = [op |-> "generate_target_materials",
                        outcome |-> res.outcome,
                        radius |-> radius, radius_list |-> radius_list,
                        bkg_std |-> bkg_arg, fit |-> fit,
                        measured |-> measured, pos |-> target_pos,
                        used |-> res.used]

-----------------------------------------------------------------------------
(* find_PSF *)

ErrEmptyMin ==
    "ValueError: zero-size array to reduction operation minimum which has no identity"
ErrNoPosList == "AttributeError: 'DataProcess' object has no attribute 'PSF_pos_list'"

RECURSIVE SeqSum(_)
SeqSum(q) == IF q = << >> THEN 0 ELSE Head(q) + SeqSum(Tail(q))

RECURSIVE SeqSumSq(_)
SeqSumSq(q) == IF q = << >> THEN 0 ELSE Head(q) * Head(q) + SeqSumSq(Tail(q))

\* np.std(f)/np.mean(f) < 0.1 for positive measurements f:
\* var/mean^2 < 1/100, with var = (n*sum(f^2) - sum(f)^2)/n^2
SpreadBelow(f) ==
    100 * (Len(f) * SeqSumSq(f) - SeqSum(f) * SeqSum(f)) < SeqSum(f) * SeqSum(f)

\* twice np.median(v)
TwiceMedian(v) ==
    LET sorted == SortSeq(v, LAMBDA a, b : a < b)
        n == Len(v)
    IN  IF n % 2 = 1 THEN 2 * sorted[(n + 1) \div 2]
        ELSE sorted[n \div 2] + sorted[n \div 2 + 1]

\* select_idx.split(" ")
RECURSIVE SplitSpaces(_, _)
SplitSpaces(text, word) ==
    IF text = << >> THEN << word >>
    ELSE IF Head(text) = " " THEN << word >> \o SplitSpaces(Tail(text), << >>)
    ELSE SplitSpaces(Tail(text), Append(word, Head(text)))

\* token.isnumeric()
IsNumeric(token) ==
    token # << >> /\ \A i \in 1 .. Len(token) : token[i] \in Digits

\* int(token)
RECURSIVE IntOf(_, _)
IntOf(token, acc) ==
    IF token = << >> THEN acc
    ELSE IntOf(Tail(token), 10 * acc + DigitVal[Head(token)])

\* [int(t) for t in select_idx.split(" ") if t.isnumeric()]
RECURSIVE TokenIndexesOf(_)
TokenIndexesOf(tokens) ==
    IF tokens = << >> THEN << >>
    ELSE (IF IsNumeric(Head(tokens)) THEN << IntOf(Head(tokens), 0) >> ELSE << >>)
         \o TokenIndexesOf(Tail(tokens))

TokenIndexes(text) == TokenIndexesOf(SplitSpaces(text, << >>))

\* the indexes i of 1 .. n, in order, for which keep[i]
RECURSIVE Kept(_, _, _)
Kept(keep, i, n) ==
    IF i > n THEN << >>
    ELSE (IF keep[i] THEN << i >> ELSE << >>) \o Kept(keep, i + 1, n)

\* wcs.all_world2pix of the header: sky coordinates are the pixel's, shifted
World2Pix(p) == << p[1] - 10, p[2] - 10 >>
Pix2World(p) == << p[1] + 10, p[2] + 10 >>

\* F(v), with v evaluated once
Bind(v, F(_)) == CHOOSE r \in { F(x) : x \in { v } } : TRUE

\* lines 195-202: the indexes into the detected maxima found that pass the
\* first filter, the spread of the FWHM measurements.  fwhms[i] are the
\* measurements of found[i]; they are all of one length, so that the mean
\* FWHMs compare as their sums do.
SpreadKept(found, fwhms) ==
    Kept([i \in 1 .. Len(found) |-> SpreadBelow(fwhms[i])], 1, Len(found))

\* np.sum(cut_image) of candidate c
CandFlux(c, radius) == RawSum(cut_center_auto(c, radius))

\* (fluxs < target_flux*10) * (fluxs > target_flux/2)
FluxInRange(flux, target_flux) == flux < target_flux * 10 /\ 2 * flux > target_flux

\* FWHMs < np.median(FWHMs)*1.5, FWHMs and the median given as multiples
FwhmBelow(fwhm, twice_median) == 4 * fwhm < 3 * twice_median

\* lines 206-210: select_bool over the candidates first, whose FWHMs are FWHMs
SelectBool(s, radius, found, first, FWHMs) ==
    Bind(IF first = << >> THEN 0 ELSE TwiceMedian(FWHMs), LAMBDA twice_median :
      Bind(RawSum(s.target_stamp), LAMBDA target_flux :
        [k \in 1 .. Len(first) |->
            /\ FwhmBelow(FWHMs[k], twice_median)
            /\ "target_stamp" \in s.attrs =>
                  FluxInRange(CandFlux(found[first[k]], radius), target_flux)]))

\* lines 193-213: the indexes into found of PSF_locs, in order
Candidates(s, radius, found, fwhms) ==
    Bind(SpreadKept(found, fwhms), LAMBDA first :
      Bind(Kept(SelectBool(s, radius, found, first,
                           [k \in 1 .. Len(first) |-> SeqSum(fwhms[first[k]])]),
                1, Len(first)),
           LAMBDA second : [k \in 1 .. Len(second) |-> first[second[k]]]))

\* the first position in idx of a candidate of greatest FWHM
FirstMax(idx, fwhms) ==
    CHOOSE k \in 1 .. Len(idx) :
        /\ \A j \in 1 .. Len(idx) : SeqSum(fwhms[idx[k]]) >= SeqSum(fwhms[idx[j]])
        /\ \A j \in 1 .. (k - 1) : SeqSum(fwhms[idx[j]]) < SeqSum(fwhms[idx[k]])

\* np.where(FWHMs == FWHMs.min())[0][0]: the first position in idx of a
\* candidate of least FWHM
FirstMin(idx, fwhms) ==
    CHOOSE k \in 1 .. Len(idx) :
        /\ \A j \in 1 .. Len(idx) : SeqSum(fwhms[idx[k]]) <= SeqSum(fwhms[idx[j]])
        /\ \A j \in 1 .. (k - 1) : SeqSum(fwhms[idx[j]]) > SeqSum(fwhms[idx[k]])

\* lines 191-238: self.PSF_pos_list
PosListStage(s, radius, arg, pos_type, user_option, found, fwhms, text) ==
    IF IsNone(arg)
    THEN Bind(Candidates(s, radius, found, fwhms), LAMBDA idx :
             IF user_option
             THEN LET select_idx == TokenIndexes(text)
                  IN  IF \E i \in 1 .. Len(select_idx) : select_idx[i] >= Len(idx)
                      THEN [s |-> s, outcome |-> ErrIndex]
                      ELSE [s |-> SetAttr([s EXCEPT !.PSF_pos_list =
                                   [i \in 1 .. Len(select_idx) |->
                                       found[idx[select_idx[i] + 1]]]],
                                 "PSF_pos_list"),
                            outcome |-> Returned]
             ELSE IF idx = << >>
                  THEN [s |-> s, outcome |-> ErrEmptyMin]
                  ELSE [s |-> SetAttr([s EXCEPT !.PSF_pos_list =
                                         << found[idx[FirstMin(idx, fwhms)]] >>],
                                      "PSF_pos_list"),
                        outcome |-> Returned])
    ELSE IF pos_type = "pixel"
         THEN [s |-> SetAttr([s EXCEPT !.PSF_pos_list = Val(arg)], "PSF_pos_list"),
               outcome |-> Returned]
    ELSE IF pos_type = "wcs"
         THEN IF "PSF_pos_list" \notin s.attrs
                THEN [s |-> s, outcome |-> ErrNoPosList]
              ELSE IF Len(s.PSF_pos_list) > Len(Val(arg))
                THEN [s |-> s, outcome |-> ErrIndex]
              ELSE [s |-> [s EXCEPT !.PSF_pos_list =
                             [i \in 1 .. Len(s.PSF_pos_list) |-> World2Pix(Val(arg)[i])]],
                    outcome |-> Returned]
    ELSE [s |-> s, outcome |-> Returned]

\* lines 239-240: self.PSF_list
FindPsfResult(s, radius, arg, pos_type, user_option, found, fwhms, text) ==
    LET p == PosListStage(s, radius, arg, pos_type, user_option, found, fwhms, text)
    IN  IF p.outcome # Returned THEN p
        ELSE IF "PSF_pos_list" \notin p.s.attrs
        THEN [s |-> p.s, outcome |-> ErrNoPosList]
        ELSE [s |-> SetAttr([p.s EXCEPT !.PSF_list =
                               [i \in 1 .. Len(p.s.PSF_pos_list) |->
                                   cut_center_auto(p.s.PSF_pos_list[i], radius)]],
                            "PSF_list"),
              outcome |-> Returned]

\* the sequences of distinct members of S, up to n long
DistinctSeqs(S, n) ==
    { q \in SeqsUpTo(S, n) : \A i, j \in 1 .. Len(q) : i # j => q[i] # q[j] }

\* One call.  args gives the values callers pass (positions lists the pixel
\* positions; a 'wcs' caller passes their sky coordinates); ext gives what
\* search_local_max, measure_FWHM and input() may return.
find_PSF(args, ext) ==
    \E radius \in args.radius,
       mode \in args.mode :
    \E arg \in (CASE mode = "search" -> { None }
                  [] mode = "wcs" ->
                       { Some([i \in 1 .. Len(q) |-> Pix2World(q[i])]) :
                            q \in args.positions }
                  [] OTHER -> { Some(q) : q \in args.positions }),
       user_option \in (IF mode = "search" THEN args.user_option ELSE { FALSE }),
       found \in (IF mode = "search" THEN ext.found ELSE { << >> }) :
    \E fwhms \in [ 1 .. Len(found) -> ext.fwhm ],
       text \in (IF user_option THEN ext.text ELSE { << >> }) :
        \E pos_type \in { IF mode = "search" THEN "pixel" ELSE mode } :
        \E res \in { FindPsfResult(Self, radius, arg, pos_type, user_option,
                                   found, fwhms, text) } :
            /\ Store(res.s)
            /\ call' = [op |-> "find_PSF", outcome |-> res.outcome,
                        radius |-> radius, PSF_pos_list |-> arg,
                        pos_type |-> pos_type, user_option |-> user_option,
                        found |-> found, fwhms |-> fwhms, text |-> text,
                        had |-> attrs]

-----------------------------------------------------------------------------
(* checkout *)

ErrNoPsfList == "AttributeError: 'DataProcess' object has no attribute 'PSF_list'"
ErrNotSquare == "ValueError: PSF shape is not a square."

\* a checklist that forgets the noise map
ChecklistNoNoiseMap ==
    << "deltaPix", "target_stamp", "target_mask", "PSF_list", "psf_id_for_fitting" >>

checklist ==
    << "deltaPix", "target_stamp", "noise_map", "target_mask", "PSF_list",
       "psf_id_for_fitting" >>

\* cut = int((shape[0] - shape[1])/2)
TrimCut(h, w) == IntHalf(h - w)

\* a trim that cuts one end only: psf[cut:, :], psf[:, -cut:]
TrimOneEnd(psf, cut) ==
    IF cut > 0 THEN [psf EXCEPT !.y0 = @ + cut, !.h = @ - cut]
    ELSE IF cut < 0 THEN [psf EXCEPT !.x0 = @ - cut, !.w = @ + cut]
    ELSE psf

\* lines 261-264: psf[cut:-cut, :] when cut > 0, psf[:, -cut:cut] when cut < 0
Trim(psf, cut) ==
    IF cut > 0 THEN [psf EXCEPT !.y0 = @ + cut, !.h = @ - 2 * cut]
    ELSE IF cut < 0 THEN [psf EXCEPT !.x0 = @ - cut, !.w = @ + 2 * cut]
    ELSE psf

\* psf /= psf.sum(): the pixels psf.raw/div divided by their sum RawSum/div;
\* a zero sum (or pixels that are NaN already) leaves NaN
Normalize(psf) ==
    [psf EXCEPT !.div = IF @ = 0 \/ RawSum(psf) = 0 THEN 0 ELSE RawSum(psf)]

\* lines 258-267: the selected PSF.  Gives the session and how the stage ended.
SquareStage(s) ==
    IF "PSF_list" \notin s.attrs THEN [s |-> s, outcome |-> ErrNoPsfList]
    ELSE IF psf_id_for_fitting >= Len(s.PSF_list) THEN [s |-> s, outcome |-> ErrIndex]
    ELSE LET psf == s.PSF_list[psf_id_for_fitting + 1]
         IN  IF psf.h # 0 /\ psf.h # psf.w
             THEN LET new == Normalize(Trim(psf, TrimCut(psf.h, psf.w)))
                      s1 == [s EXCEPT !.PSF_list[psf_id_for_fitting + 1] = new]
                  IN  [s |-> s1,
                       outcome |-> IF new.h # new.w THEN ErrNotSquare ELSE Returned]
             ELSE [s |-> s, outcome |-> Returned]

\* lines 268-271: the names printed as missing, in order
Missing(s) == SelectSeq(checklist, LAMBDA name : name \notin s.attrs)

checkout ==
    \E q \in { SquareStage(Self) } :
    \E missing \in { IF q.outcome = Returned THEN Missing(q.s) ELSE << >> } :
        /\ Store(q.s)
        /\ call' = [op |-> "checkout", outcome |-> q.outcome,
                    missing |-> missing, ct |-> Len(missing),
                    ready |-> q.outcome = Returned /\ Len(missing) = 0,
                    had |-> attrs,
                    before |-> IF "PSF_list" \in attrs
                                  /\ psf_id_for_fitting < Len(PSF_list)
                               THEN << PSF_list[psf_id_for_fitting + 1] >>
                               ELSE << >>]

-----------------------------------------------------------------------------
(* The calls each specification makes. *)

RadiusChoices == { 2, 4 }
RadiusLists == SeqsUpTo(RadiusChoices, MaxRadiusList)
InputTexts == { << >>, << "0" >>, << "0", " ", "1" >> }

\* the plain call: a fixed radius, no prompt
PlainGtmArgs ==
    [ cut_kernel |-> { None }, radius |-> { Some(2) }, radius_list |-> { None },
      bkg_std |-> { None }, create_mask |-> { FALSE } ]
PlainGtmExt ==
    [ measured |-> { 1 }, detected |-> { 1 }, text |-> { << >> }, fit |-> FitResults ]

\* noise map and mask: every way to give bkg_std and to answer the prompt
NoiseGtmArgs ==
    [ cut_kernel |-> { None }, radius |-> { Some(2), Some(4) },
      radius_list |-> { None }, bkg_std |-> Opt({ 3 }), create_mask |-> BOOLEAN ]
NoiseGtmExt ==
    [ measured |-> { 1, 2 }, detected |-> 0 .. MaxApertures, text |-> InputTexts,
      fit |-> FitResults ]

\* every radius argument, a plain noise map
RadiusGtmArgs ==
    [ cut_kernel |-> Opt({ "center_gaussian" }), radius |-> Opt({ 3 }),
      radius_list |-> Opt(RadiusLists), bkg_std |-> { None },
      create_mask |-> { FALSE } ]

\* a prompt that may be answered with an index out of range
MaskGtmArgs ==
    [ cut_kernel |-> { None }, radius |-> { Some(2) }, radius_list |-> { None },
      bkg_std |-> { None }, create_mask |-> BOOLEAN ]
MaskGtmExt ==
    [ measured |-> { 1 }, detected |-> { 1 }, text |-> { << >>, << "1" >> },
      fit |-> FitResults ]

\* the star at the left edge, the faint star at the top edge, blank sky at the
\* right edge, the target
StarLeft == << 0, 4 >>
StarTop == << 4, 0 >>
BlankRight == << 8, 2 >>
Target == << 4, 4 >>

FwhmSamples == { << 4, 4 >>, << 5, 5 >>, << 13, 13 >>, << 4, 8 >> }

PlainPsfArgs ==
    [ radius |-> { 2 }, mode |-> { "pixel" },
      positions |-> { << >>, << Target >>, << StarLeft >> },
      user_option |-> { FALSE } ]
PlainPsfExt ==
    [ found |-> { << >> }, fwhm |-> FwhmSamples, text |-> { << >> } ]

\* explicit positions, every pos_type
ExplicitPsfArgs ==
    [ radius |-> { 1, 2, 3 }, mode |-> { "pixel", "wcs", "sky" },
      positions |-> SeqsUpTo({ StarLeft, StarTop, BlankRight }, MaxPosList),
      user_option |-> { FALSE } ]

\* the search for candidates
SearchPsfArgs ==
    [ radius |-> { 2 }, mode |-> { "search" }, positions |-> { << >> },
      user_option |-> { FALSE } ]
SearchPsfExt ==
    [ found |-> DistinctSeqs({ StarLeft, StarTop, Target }, MaxCand),
      fwhm |-> FwhmSamples, text |-> InputTexts ]

\* a session with a header, a noise map and the target at the centre
InitPlain ==
    /\ Init
    /\ header = "exp"
    /\ exptime = "none"
    /\ fov_noise_map
    /\ target_pos = Target

Next ==
    \/ generate_target_materials(MaskGtmArgs, MaskGtmExt)
    \/ find_PSF(PlainPsfArgs, PlainPsfExt)
    \/ checkout

Spec == Init /\ [][Next]_vars

NextNoise ==
    \/ generate_target_materials(NoiseGtmArgs, NoiseGtmExt)
    \/ find_PSF(PlainPsfArgs, PlainPsfExt)
    \/ checkout

SpecNoise == Init /\ [][NextNoise]_vars

NextRadius ==
    \/ generate_target_materials(RadiusGtmArgs, PlainGtmExt)
    \/ find_PSF(PlainPsfArgs, PlainPsfExt)
    \/ checkout

InitRadius ==
    /\ Init
    /\ header = "exp"
    /\ exptime = "none"
    /\ fov_noise_map

SpecRadius == InitRadius /\ [][NextRadius]_vars

NextPSF ==
    \/ generate_target_materials(PlainGtmArgs, PlainGtmExt)
    \/ find_PSF(ExplicitPsfArgs, PlainPsfExt)
    \/ checkout

SpecPSF == InitPlain /\ [][NextPSF]_vars

NextSearch ==
    \/ generate_target_materials(PlainGtmArgs, PlainGtmExt)
    \/ find_PSF(SearchPsfArgs, SearchPsfExt)
    \/ checkout

SpecSearch == InitPlain /\ [][NextSearch]_vars

-----------------------------------------------------------------------------
(* The claims. *)

IsGtm == call.op = "generate_target_materials"
IsFindPsf == call.op = "find_PSF"
IsCheckout == call.op = "checkout"

\* the selected PSF stamp
SelectedPsf == PSF_list[psf_id_for_fitting + 1]

\* C1: checkout is a non-fatal diagnostic: in every state reachable after
\* construction, whichever checklist fields are absent (PSF_list included,
\* when find_PSF was never called), it returns normally (the one failure it
\* documents, a PSF that cannot be made square, aside).
C1_CheckoutReturns ==
    IsCheckout => call.outcome \in { Returned, ErrNotSquare }

ChecklistFields ==
    { "deltaPix", "target_stamp", "noise_map", "target_mask", "PSF_list",
      "psf_id_for_fitting" }

\* C2: when checkout runs on a session whose selected PSF stamp exists and is
\* square, the names it reports as missing are exactly the checklist fields
\* that are absent, each once, the problem count is their number, and the
\* ready signal is given exactly when the count is zero.
C2_MissingReported ==
    (IsCheckout /\ call.before # << >> /\ IsSquare(call.before[1])) =>
        /\ call.outcome = Returned
        /\ SeqToSet(call.missing) = ChecklistFields \ attrs
        /\ Len(call.missing) = Cardinality(ChecklistFields \ attrs)
        /\ call.ct = Cardinality(ChecklistFields \ attrs)
        /\ call.ready <=> (call.ct = 0)

\* a checkout of a fully populated session with a square PSF, found ready
C2_ReadySession ==
    /\ IsCheckout
    /\ call.before # << >>
    /\ IsSquare(call.before[1])
    /\ ChecklistFields \subseteq attrs
    /\ call.ready

Abs(a) == IF a >= 0 THEN a ELSE -a

\* the same number of rows, and of columns, removed at both ends
TrimmedEvenly(b, a) ==
    /\ a.y0 - b.y0 = (b.y0 + b.h) - (a.y0 + a.h)
    /\ a.x0 - b.x0 = (b.x0 + b.w) - (a.x0 + a.w)
    /\ a.y0 >= b.y0
    /\ a.x0 >= b.x0

\* what C3 says of a checkout that found the selected PSF b non-square;
\* unit tells whether the pixel sum of the stamp left must be one
C3_Outcome(b, unit) ==
    IF Abs(b.h - b.w) % 2 = 0
    THEN /\ call.outcome = Returned
         /\ SelectedPsf.h = Min(b.h, b.w)
         /\ SelectedPsf.w = Min(b.h, b.w)
         /\ TrimmedEvenly(b, SelectedPsf)
         /\ unit => SumIsOne(SelectedPsf)
    ELSE call.outcome = ErrNotSquare

\* C3 as stated: a non-square selected PSF of shape (h, w) is left square with
\* side min(h, w), trimmed evenly at both ends of the longer axis and with
\* pixel sum one, exactly when |h - w| is even, and checkout fails with 'PSF
\* shape is not a square' exactly when |h - w| is odd.
C3_TrimmedToUnitSum ==
    (IsCheckout /\ call.before # << >> /\ ~IsSquare(call.before[1])) =>
        C3_Outcome(call.before[1], TRUE)

\* C3 as amended: the pixel sum is one when the pixels of the trimmed stamp do
\* not sum to zero.
C3_TrimmedToSquare ==
    (IsCheckout /\ call.before # << >> /\ ~IsSquare(call.before[1])) =>
        C3_Outcome(call.before[1], RawSum(SelectedPsf) # 0)

\* a checkout that trimmed rows off a non-square PSF and left its sum one
C3_TrimmedStar ==
    /\ IsCheckout
    /\ call.before # << >>
    /\ call.before[1].h > call.before[1].w
    /\ call.outcome = Returned
    /\ SelectedPsf.h < call.before[1].h
    /\ SumIsOne(SelectedPsf)

\* C4: when no noise map was supplied and neither an explicit exposure time
\* nor a header EXPTIME exists (a header without the key, or no header),
\* generate_target_materials fails with the missing-data error and in no
\* other way.
C4_NoExposureTime ==
    (IsGtm /\ ~fov_noise_map /\ exptime = "none" /\ header # "exp") =>
        call.outcome = ErrNoExptime

\* C5: whenever both noise_map and target_stamp exist they have the same
\* shape.
C5_SameShape ==
    ({ "noise_map", "target_stamp" } \subseteq attrs) =>
        /\ noise_map.stamp.h = target_stamp.h
        /\ noise_map.stamp.w = target_stamp.w

\* C6: when no FOV-wide noise map was supplied and the exposure time resolves
\* (an explicit scalar or map, or the header's EXPTIME), the call stores a noise
\* map computed with the caller's bkg_std when one is given and with the
\* measured value otherwise, and does not fail (an index typed at the mask
\* prompt that is out of range aside).
C6_NoiseComputed ==
    (IsGtm /\ ~fov_noise_map /\ (exptime # "none" \/ header = "exp")) =>
        /\ call.outcome \in { Returned, ErrIndex }
        /\ "noise_map" \in attrs
        /\ noise_map.kind = "computed"
        /\ noise_map.stamp = cutout(target_pos, Val(call.used))
        /\ noise_map.bkg = IF IsNone(call.bkg_std) THEN call.measured
                           ELSE Val(call.bkg_std)

\* the radius list of the last call
C7_List ==
    IF IsNone(call.radius_list) THEN << 30, 35, 40, 45, 50, 60, 70 >>
    ELSE Val(call.radius_list)

\* the entries whose edge-outlier fraction is below 3%
C7_Qualifying ==
    { i \in 1 .. Len(C7_List) :
        LET s == cutout(call.pos, C7_List[i])
        IN  EdgeAbove(s, call.fit[s].mean + 2 * call.fit[s].sig) * 100
                < 3 * EdgeLen(s) }

\* C7: without an explicit radius the cutout uses the first entry of the
\* radius list whose edge-outlier fraction is below 3%, or the last entry if
\* none qualifies; an explicit radius is used unchanged.
C7_RadiusChosen ==
    (IsGtm /\ ~IsNone(call.used)) =>
        /\ ~IsNone(call.radius) => call.used = call.radius
        /\ IsNone(call.radius) =>
              /\ C7_List # << >>
              /\ \/ /\ C7_Qualifying = {}
                    /\ Val(call.used) = C7_List[Len(C7_List)]
                 \/ \E i \in C7_Qualifying :
                       /\ Val(call.used) = C7_List[i]
                       /\ \A j \in C7_Qualifying : i <= j
        /\ call.outcome = Returned =>
              target_stamp = cutout(target_pos, Val(call.used))

\* a call that passed over the first entry of its list and took the second
C7_SecondEntry ==
    /\ IsGtm
    /\ IsNone(call.radius)
    /\ ~IsNone(call.radius_list)
    /\ Len(C7_List) >= 2
    /\ C7_List[1] # C7_List[2]
    /\ C7_Qualifying = { 2 }
    /\ call.used = Some(C7_List[2])
    /\ call.outcome = Returned

\* C8: find_PSF called with n explicit positions, pos_type 'pixel' or 'wcs',
\* returns normally and leaves PSF_pos_list with the n positions in order
\* (transformed through the WCS for 'wcs') and PSF_list with n stamps.
C8_ExplicitPositions ==
    (IsFindPsf /\ ~IsNone(call.PSF_pos_list) /\ call.pos_type \in { "pixel", "wcs" }) =>
        /\ call.outcome = Returned
        /\ Len(PSF_pos_list) = Len(Val(call.PSF_pos_list))
        /\ Len(PSF_list) = Len(Val(call.PSF_pos_list))
        /\ \A i \in 1 .. Len(Val(call.PSF_pos_list)) :
              PSF_pos_list[i] = IF call.pos_type = "pixel"
                                THEN Val(call.PSF_pos_list)[i]
                                ELSE World2Pix(Val(call.PSF_pos_list)[i])

\* the mean FWHM of detected maximum i, as the sum of its measurements
C9_Fwhm(i) == SeqSum(call.fwhms[i])

\* the detected maxima that passed the spread filter
C9_Steady ==
    { i \in 1 .. Len(call.found) :
        LET f == call.fwhms[i]
            n == Len(f)
        IN  100 * (n * SeqSumSq(f) - SeqSum(f) * SeqSum(f)) < SeqSum(f) * SeqSum(f) }

\* the k-th smallest mean FWHM among C9_Steady
C9_Kth(k) ==
    CHOOSE v \in { C9_Fwhm(i) : i \in C9_Steady } :
        /\ Cardinality({ i \in C9_Steady : C9_Fwhm(i) < v }) < k
        /\ k <= Cardinality({ i \in C9_Steady : C9_Fwhm(i) <= v })

\* twice their median
C9_TwiceMedian ==
    LET n == Cardinality(C9_Steady)
    IN  IF n % 2 = 1 THEN 2 * C9_Kth((n + 1) \div 2)
        ELSE C9_Kth(n \div 2) + C9_Kth(n \div 2 + 1)

\* the detected maxima that passed every filter: the spread filter, the median
\* filter and, if and only if a target stamp existed, the flux filter
C9_Passed ==
    { i \in C9_Steady :
        /\ 4 * C9_Fwhm(i) < 3 * C9_TwiceMedian
        /\ "target_stamp" \in call.had =>
              LET flux == RawSum(cut_center_auto(call.found[i], call.radius))
              IN  /\ flux < 10 * RawSum(target_stamp)
                  /\ 2 * flux > RawSum(target_stamp) }

\* an automatic search
C9_AutoSearch == IsFindPsf /\ IsNone(call.PSF_pos_list) /\ ~call.user_option

\* the search left exactly one position, a sharpest one of those that passed
\* the filters, and its stamp
C9_OneSharpest ==
    /\ call.outcome = Returned
    /\ Len(PSF_pos_list) = 1
    /\ Len(PSF_list) = 1
    /\ \E i \in C9_Passed :
          /\ PSF_pos_list[1] = call.found[i]
          /\ \A j \in C9_Passed : C9_Fwhm(i) <= C9_Fwhm(j)
    /\ PSF_list[1] = cut_center_auto(PSF_pos_list[1], call.radius)

\* C9 as stated: an automatic search leaves exactly one position and one
\* stamp, a detected maximum of least mean FWHM among those that passed the
\* filters.
C9_AlwaysOne == C9_AutoSearch => C9_OneSharpest

\* C9 as amended: it does when at least one detected maximum passes the
\* filters; when none does, the call fails taking the minimum of no FWHM.
C9_OneWhenAnyPassed ==
    C9_AutoSearch =>
        IF C9_Passed = {} THEN call.outcome = ErrEmptyMin ELSE C9_OneSharpest

\* a search, made with a target stamp, whose flux filter removed a sharper
\* candidate than the one chosen
C9_FluxDecided ==
    /\ C9_AutoSearch
    /\ call.outcome = Returned
    /\ "target_stamp" \in call.had
    /\ \E i \in C9_Steady \ C9_Passed, j \in C9_Passed :
          /\ C9_Fwhm(i) < C9_Fwhm(j)
          /\ PSF_pos_list[1] = call.found[j]

\* C10: deltaPix exists exactly on the sessions constructed with a header; on
\* a session constructed without one, checkout never gives the ready signal,
\* and reports deltaPix as missing whenever it gets to report.
C10_NeverReadyWithoutHeader ==
    /\ "deltaPix" \in attrs <=> header # "none"
    /\ (header = "none" /\ IsCheckout) =>
          /\ ~call.ready
          /\ call.outcome = Returned => "deltaPix" \in SeqToSet(call.missing)

\* a checkout, on a session without a header, that finds nothing but deltaPix
\* missing
C10_OnlyDeltaPixMissing ==
    /\ header = "none"
    /\ IsCheckout
    /\ call.outcome = Returned
    /\ call.missing = << "deltaPix" >>

=============================================================================
